---- MODULE Spec2Model ----
(***************************************************************************)
(* A model of the chat-command framework of hata/ext/commands/command.py:  *)
(* Command, Category and CommandProcesser (registry, alias bookkeeping,    *)
(* check chain and dispatch).                                              *)
(*                                                                         *)
(* Strings are sequences of one-character strings, so that str.lower(),    *)
(* the '-'/'_' variants of generate_alters_for and the ordering used by    *)
(* the sorted lists are computed rather than assumed.  Python's None is    *)
(* the marker None among strings, 0 among object references, and           *)
(* NoneList among lists.                                                   *)
(***************************************************************************)
EXTENDS Integers, Sequences, FiniteSets, TLC

(* ------------------------------ bounds --------------------------------- *)
\* Number of Command objects that are ever created.
MaxCommands == 2
\* Number of Category objects that are ever created (the default one included).
MaxCategories == 2
\* Longest check list of a command or of a category in the check-chain model.
MaxChecks == 2
\* Number of times one message is followed through the mention loop.
MaxRuns == 2
\* Number of registry operations (additions, removals, category creations
\* and deletions) that one processor carries out without raising.
MaxOps == 3

(* ------------------------------ strings -------------------------------- *)
None == <<"None">>
\* None where a list of strings can stand; it differs from the list [None].
NoneList == << <<"NoneType">> >>
EmptyStr == <<>>

AUTO_DASH_MAIN_CHAR == "-"
AUTO_DASH_APPLICABLES == <<"-", "_">>

\* ord() of the characters the model uses.
Ord(ch) ==
    CASE ch = "-" -> 45
      [] ch = "A" -> 65
      [] ch = "B" -> 66
      [] ch = "C" -> 67
      [] ch = "_" -> 95
      [] ch = "a" -> 97
      [] ch = "b" -> 98
      [] ch = "c" -> 99
      [] ch = "d" -> 100
      [] ch = "m" -> 109
      [] OTHER -> 0

\* str.__lt__: lexicographic by code point.
RECURSIVE StrLt(_, _)
StrLt(s, t) ==
    IF t = <<>> THEN FALSE
    ELSE IF s = <<>> THEN TRUE
    ELSE IF Ord(Head(s)) < Ord(Head(t)) THEN TRUE
    ELSE IF Ord(Head(s)) > Ord(Head(t)) THEN FALSE
    ELSE StrLt(Tail(s), Tail(t))

StrLe(s, t) == s = t \/ StrLt(s, t)

LowerChar(ch) ==
    CASE ch = "A" -> "a"
      [] ch = "B" -> "b"
      [] ch = "C" -> "c"
      [] OTHER -> ch

\* str.lower()
Lower(s) == [i \in 1..Len(s) |-> LowerChar(s[i])]

IsDash(ch) == \E i \in 1..Len(AUTO_DASH_APPLICABLES) : AUTO_DASH_APPLICABLES[i] = ch

\* The `pattern` list of generate_alters_for: the runs of ordinary characters,
\* with None standing at every '-' or '_'.
RECURSIVE PatternOf(_, _, _)
PatternOf(name, chars, pattern) ==
    IF name = <<>> THEN
        IF chars # <<>> THEN Append(pattern, chars) ELSE pattern
    ELSE IF IsDash(Head(name)) THEN
        PatternOf(Tail(name), <<>>,
                  Append(IF chars # <<>> THEN Append(pattern, chars) ELSE pattern, None))
    ELSE
        PatternOf(Tail(name), Append(chars, Head(name)), pattern)

\* The `generated` list after the parts of `pattern` were consumed: every
\* separator doubles the list, the first half gets '-', the second half '_'.
RECURSIVE Generated(_, _)
Generated(pattern, generated) ==
    IF pattern = <<>> THEN generated
    ELSE
        LET part == Head(pattern) IN
        IF part # None THEN
            Generated(Tail(pattern), [i \in 1..Len(generated) |-> generated[i] \o part])
        ELSE
            LET count == Len(generated)
                copied == generated \o generated
                dashed == [i \in 1..Len(copied) |->
                              copied[i] \o <<AUTO_DASH_APPLICABLES[((i - 1) \div count) + 1]>>]
            IN  Generated(Tail(pattern), dashed)

\* generate_alters_for(name): the list of alternative names; its first element
\* is the all-'-' form.
generate_alters_for(name) ==
    LET pattern == PatternOf(name, <<>>, <<>>) IN
    IF Len(pattern) = 1 THEN <<pattern[1]>>
    ELSE Generated(pattern, << <<>> >>)

SeqToSet(s) == {s[i] : i \in 1..Len(s)}


\* sorted(): the ascending list of a set of strings.
RECURSIVE SortedSeq(_)
SortedSeq(S) ==
    IF S = {} THEN <<>>
    ELSE LET m == CHOOSE x \in S : \A y \in S : StrLe(x, y)
         IN  <<m>> \o SortedSeq(S \ {m})

\* list.remove(x) for a list without duplicates.
RemoveFromSeq(s, x) == SelectSeq(s, LAMBDA e : e # x)

(* --------------------------- Python values ----------------------------- *)
PyNone == [type |-> "NoneType", val |-> 0]
PyInt(n) == [type |-> "int", val |-> n]
PyStr == [type |-> "str", val |-> 1]
\* bool(value)
Truthy(v) == v.val # 0

\* check_failure_handler: None, or one of two handler callables.
NoHandler == "None"
Handlers == {"handler_1", "handler_2"}

(* ----------------------------- Category -------------------------------- *)
\* A Category object that was not created yet.
NoCategory ==
    [created |-> FALSE, name |-> None, commands |-> <<>>, checks |-> <<>>, handler |-> NoHandler]

\* Category.__new__: `checks` is the processed check list (<<>> for None, an
\* empty list being stored as None as well), `check_failure_handler` NoHandler for None.
CategoryNew(name, checks_, check_failure_handler) ==
    [created |-> TRUE, name |-> name, commands |-> <<>>, checks |-> checks_,
     handler |-> check_failure_handler]

\* Category.__lt__ (it compares the names with <=).
CategoryLt(self, other) ==
    IF self.name = None THEN other.name # None
    ELSE IF other.name = None THEN FALSE
    ELSE StrLe(self.name, other.name)

\* Category.__eq__
CategoryEq(self, other) ==
    IF self.name = None THEN other.name = None
    ELSE IF other.name = None THEN FALSE
    ELSE self.name = other.name

\* CommandProcesser._get_category_key
CategoryKey(category) == IF category.name = None THEN EmptyStr ELSE category.name

(* ------------------------------ Command -------------------------------- *)
NoCommand ==
    [created |-> FALSE, name |-> None, aliases |-> NoneList, alters |-> {},
     category |-> 0, hint |-> None, checks |-> <<>>, handler |-> NoHandler]

\* check_name(command, name) of discord/parsers.py: the name in lower case.
check_name(name) == Lower(name)

\* The category argument of Command.__new__: None, a Category object or a str.
CatArgNone == [kind |-> "none", obj |-> 0, name |-> None]
CatArgObj(k) == [kind |-> "obj", obj |-> k, name |-> None]
CatArgStr(n) == [kind |-> "str", obj |-> 0, name |-> n]

\* Command.__new__ : K is the state of the Category objects, aliases_ the set
\* of alias strings passed (empty for None), checks_ the check list, handler
\* the check_failure_handler passed.
CommandNew(K, name_, aliases_, category_, checks_, handler_) ==
    LET name0 == check_name(name_)
        alters_name == generate_alters_for(name0)
        name == alters_name[1]
        alias_firsts == {generate_alters_for(a)[1] : a \in aliases_}
        alters == SeqToSet(alters_name)
                     \cup UNION {SeqToSet(generate_alters_for(a)) : a \in aliases_}
        aliases == alias_firsts \ {name}
        category == IF category_.kind = "obj" THEN category_.obj ELSE 0
        category_hint ==
            IF category_.kind = "none" THEN None
            ELSE IF category_.kind = "obj" THEN K[category_.obj].name
            ELSE category_.name
        check_failure_handler ==
            IF handler_ = NoHandler
            THEN IF category # 0 THEN K[category].handler ELSE NoHandler
            ELSE handler_
    IN  [created |-> TRUE,
         name |-> name,
         aliases |-> IF aliases # {} THEN SortedSeq(aliases) ELSE NoneList,
         alters |-> alters,
         category |-> category,
         hint |-> category_hint,
         checks |-> checks_,
         handler |-> check_failure_handler]

\* Command.__new__ raises TypeError: sorted(aliases) (line 447) compares a
\* None, which generate_alters_for gave for an alias made of one '-' or '_',
\* with a str.
CommandNewRaises(name_, aliases_) ==
    LET name == generate_alters_for(check_name(name_))[1]
        aliases == {generate_alters_for(a)[1] : a \in aliases_} \ {name}
    IN  None \in aliases /\ Cardinality(aliases) >= 2

\* Command.__lt__, __eq__, __ne__ compare the names.
CommandLt(self, other) == StrLt(self.name, other.name)
CommandEq(self, other) == self.name = other.name
CommandNe(self, other) == self.name # other.name

(* ----------------------------- sortedlist ------------------------------ *)
\* sortedlist.relativeindex over Command objects (C is the state of the
\* Command objects, the lists hold references): binary search with `<`.
RECURSIVE CmdRelativeIndex(_, _, _, _, _)
CmdRelativeIndex(C, list, value, bot, top) ==
    IF bot < top THEN
        LET half == (bot + top) \div 2 IN
        IF CommandLt(C[list[half + 1]], C[value])
        THEN CmdRelativeIndex(C, list, value, half + 1, top)
        ELSE CmdRelativeIndex(C, list, value, bot, half)
    ELSE bot

InsertAt(list, index, value) ==
    SubSeq(list, 1, index) \o <<value>> \o SubSeq(list, index + 1, Len(list))

DeleteAt(list, index) ==
    SubSeq(list, 1, index) \o SubSeq(list, index + 2, Len(list))

\* sortedlist.add: an equal element is overwritten.
CmdListAdd(C, list, value) ==
    LET index == CmdRelativeIndex(C, list, value, 0, Len(list)) IN
    IF index = Len(list) THEN Append(list, value)
    ELSE IF CommandEq(C[list[index + 1]], C[value])
         THEN [list EXCEPT ![index + 1] = value]
         ELSE InsertAt(list, index, value)

\* sortedlist.remove: removes the element found at the value's place if it
\* is equal to the value.
CmdListRemove(C, list, value) ==
    LET index == CmdRelativeIndex(C, list, value, 0, Len(list)) IN
    IF index = Len(list) THEN list
    ELSE IF CommandNe(C[list[index + 1]], C[value]) THEN list
         ELSE DeleteAt(list, index)

RECURSIVE CatRelativeIndex(_, _, _, _, _)
CatRelativeIndex(K, list, value, bot, top) ==
    IF bot < top THEN
        LET half == (bot + top) \div 2 IN
        IF CategoryLt(K[list[half + 1]], K[value])
        THEN CatRelativeIndex(K, list, value, half + 1, top)
        ELSE CatRelativeIndex(K, list, value, bot, half)
    ELSE bot

CatListAdd(K, list, value) ==
    LET index == CatRelativeIndex(K, list, value, 0, Len(list)) IN
    IF index = Len(list) THEN Append(list, value)
    ELSE IF CategoryEq(K[list[index + 1]], K[value])
         THEN [list EXCEPT ![index + 1] = value]
         ELSE InsertAt(list, index, value)

\* The keyed binary search of sortedlist.get and sortedlist.pop.
RECURSIVE CatKeyedIndex(_, _, _, _, _)
CatKeyedIndex(K, list, value, bot, top) ==
    IF bot < top THEN
        LET half == (bot + top) \div 2 IN
        IF StrLt(CategoryKey(K[list[half + 1]]), value)
        THEN CatKeyedIndex(K, list, value, half + 1, top)
        ELSE CatKeyedIndex(K, list, value, bot, half)
    ELSE bot

\* The index (from 1) of the category with the given key, 0 when there is none.
CatListFind(K, list, value) ==
    LET index == CatKeyedIndex(K, list, value, 0, Len(list)) IN
    IF index = Len(list) THEN 0
    ELSE IF CategoryKey(K[list[index + 1]]) = value THEN index + 1 ELSE 0

\* sortedlist.get(value, key): the Category, 0 for the default None.
CatListGet(K, list, value) ==
    LET at == CatListFind(K, list, value) IN
    IF at = 0 THEN 0 ELSE list[at]

\* Comparing a str key with None raises TypeError; the search compares as
\* soon as the list is not empty.
KeyedSearchRaises(list, value) == value = None /\ Len(list) > 0


(* --------------------------- Command.__call__ -------------------------- *)
COMMAND_CALL_SETTING_2ARGS == 0
COMMAND_CALL_SETTING_3ARGS == 1
COMMAND_CALL_SETTING_USE_PARSER == 2

\* The value a check returns when it passes, and the one a failing check
\* returns to fail without the failure handler.
CheckPassed == -2
CheckSilent == -1

\* What a raising callable "returns".
PyRaise == [type |-> "raise", val |-> 1]

\* A check loop that calls every check of the list before it looks at what
\* they returned.
CheckLoop_calls_all(checks, outcome, called) ==
    LET failing == {i \in 1..Len(checks) : outcome[checks[i]] # CheckPassed}
    IN  [called |-> called \o checks,
         fail |-> IF failing = {} THEN CheckPassed
                  ELSE outcome[checks[CHOOSE i \in failing : \A j \in failing : i <= j]]]

\* One `for check in checks` loop of Command.__call__ : the checks are called
\* in list order up to the first that does not pass.  outcome[check] is what
\* check(client, message) returns.  The result is the list of the checks
\* called and the value that ended the loop (CheckPassed when none did).
RECURSIVE CheckLoop(_, _, _)
CheckLoop(checks, outcome, called) ==
    IF checks = <<>> THEN [called |-> called, fail |-> CheckPassed]
    ELSE LET check == Head(checks)
             fail_identificator == outcome[check]
         IN  IF fail_identificator = CheckPassed
             THEN CheckLoop(Tail(checks), outcome, Append(called, check))
             ELSE [called |-> Append(called, check), fail |-> fail_identificator]

\* CheckFailed in which the handler runs but its result is dropped for 1.
CheckFailed_drops_result(called, fail_identificator, handler, env) ==
    IF fail_identificator = CheckSilent \/ handler = NoHandler
    THEN [called |-> called, handler_calls |-> <<>>, parser_failures |-> 0,
          invoked |-> 0, result |-> PyInt(1)]
    ELSE [called |-> called,
          handler_calls |-> <<[handler |-> handler, fail |-> fail_identificator]>>,
          parser_failures |-> 0, invoked |-> 0, result |-> PyInt(1)]

\* What Command.__call__ did and returned, when a check loop ended with the
\* given value other than CheckPassed.
CheckFailed(called, fail_identificator, handler, env) ==
    IF fail_identificator = CheckSilent \/ handler = NoHandler
    THEN [called |-> called, handler_calls |-> <<>>, parser_failures |-> 0,
          invoked |-> 0, result |-> PyInt(1)]
    ELSE [called |-> called,
          handler_calls |-> <<[handler |-> handler, fail |-> fail_identificator]>>,
          parser_failures |-> 0, invoked |-> 0, result |-> env.handler_result]

\* The tail of Command.__call__ (lines 702-718): the command is called, after
\* its parser when it has one.
CallCommand(called, call_setting, env) ==
    IF call_setting = COMMAND_CALL_SETTING_USE_PARSER /\ ~env.parser_passed
    THEN [called |-> called, handler_calls |-> <<>>,
          parser_failures |-> IF env.parser_failure_handler THEN 1 ELSE 0,
          invoked |-> 0,
          result |-> IF env.parser_failure_handler THEN env.handler_result ELSE PyNone]
    ELSE [called |-> called, handler_calls |-> <<>>, parser_failures |-> 0,
          invoked |-> 1, result |-> env.command_result]

\* Command.__call__ in which the checks of the category are left out.
CommandCall_without_category_checks(category_checks, checks, handler, call_setting, env) ==
    LET second == CheckLoop(checks, env.outcome, <<>>)
    IN  IF second.fail # CheckPassed
        THEN CheckFailed(second.called, second.fail, handler, env)
        ELSE CallCommand(second.called, call_setting, env)

\* Command.__call__(client, message, content) of a command with the check
\* list `checks`, the handler `handler` and a category with the check list
\* `category_checks`.  env holds what the callables do for this message.
CommandCall(category_checks, checks, handler, call_setting, env) ==
    LET first == CheckLoop(category_checks, env.outcome, <<>>)
        second == CheckLoop(checks, env.outcome, first.called)
    IN  IF first.fail # CheckPassed
        THEN CheckFailed(first.called, first.fail, handler, env)
        ELSE IF second.fail # CheckPassed
        THEN CheckFailed(second.called, second.fail, handler, env)
        ELSE CallCommand(second.called, call_setting, env)

(* ------------------------- CommandProcesser ---------------------------- *)
VARIABLES
    cmds,                   \* the Command objects: [1..MaxCommands -> record]
    cats,                   \* the Category objects: [1..MaxCategories -> record]
    commands,               \* CommandProcesser.commands: name -> Command
    categories,             \* CommandProcesser.categories: sorted list of Category
    default_category_name,  \* CommandProcesser._default_category_name
    command_error,          \* CommandProcesser.command_error
    ops,                    \* the number of registry operations that returned
    last,                   \* the last operation and the exception it raised
    call                    \* what the last message dispatched did

vars == <<cmds, cats, commands, categories, default_category_name, command_error, ops,
          last, call>>

CmdIds == 1..MaxCommands
CatIds == 1..MaxCategories

\* dict.get(key), 0 for None
DictGet(dict, key) == IF key \in DOMAIN dict THEN dict[key] ELSE 0
\* the dict without the given keys (del dict[key], a missing key being passed)
DictDel(dict, keys) == [k \in DOMAIN dict \ keys |-> dict[k]]
\* dict[key] = value for every key of keys
DictSet(dict, keys, value) ==
    [k \in DOMAIN dict \cup keys |-> IF k \in keys THEN value ELSE dict[k]]

\* CommandProcesser.get_category
get_category(K, list, dname, category_name) ==
    LET name == IF category_name = None \/ category_name = EmptyStr
                THEN (IF dname = None THEN EmptyStr ELSE dname)
                ELSE category_name
    IN  CatListGet(K, list, name)

\* CommandProcesser.get_default_category
get_default_category(K, list, dname) ==
    CatListGet(K, list, IF dname = None THEN EmptyStr ELSE dname)

\* CommandProcesser.command_count
RECURSIVE CountCommands(_, _)
CountCommands(K, list) ==
    IF list = <<>> THEN 0
    ELSE Len(K[Head(list)].commands) + CountCommands(K, Tail(list))

command_count == CountCommands(cats, categories)

\* The first Category object not created yet, 0 when all are.
FreeCategory(K) ==
    IF \E k \in CatIds : ~K[k].created
    THEN CHOOSE k \in CatIds : ~K[k].created /\ \A j \in CatIds : j < k => K[j].created
    ELSE 0

FreeCommand(C) ==
    IF \E c \in CmdIds : ~C[c].created
    THEN CHOOSE c \in CmdIds : ~C[c].created /\ \A j \in CmdIds : j < c => C[j].created
    ELSE 0

\* The state of the processor and of its objects, as the operations pass it on.
State(C, K, D, L, exc) == [C |-> C, K |-> K, D |-> D, L |-> L, exc |-> exc]

\* The alters loop that finds nothing.
AlterTaken_never(D, alters, would_overwrite) == FALSE

\* The loop over the alters of _add_command (lines 1758-1781): an alter is
\* registered to a command other than the one to overwrite.
AlterTaken(D, alters, would_overwrite) ==
    \E alter \in alters : alter \in DOMAIN D /\ D[alter] # would_overwrite

\* CommandProcesser._add_command(command), from the state (C, K, D, L) of the
\* Command objects, the Category objects, the commands dict and the
\* categories list.  The result is the state it leaves and the exception.
add_command(C, K, D, L, dname, command) ==
    LET given == C[command].category
        hint == IF C[command].hint = None THEN dname ELSE C[command].hint
        found == get_category(K, L, dname, hint)
        fresh == FreeCategory(K)
        \* lines 1730-1748: the category of the command
        not_owned == given # 0 /\ get_category(K, L, dname, K[given].name) # given
        category_added == given # 0 \/ found # 0
        category0 == IF given # 0 THEN given ELSE IF found # 0 THEN found ELSE fresh
        K1 == IF category_added THEN K
              ELSE [K EXCEPT ![fresh] = CategoryNew(hint, <<>>, NoHandler)]
        C1 == IF given # 0 THEN C ELSE [C EXCEPT ![command].category = category0]
        \* lines 1750-1781: what the command would overwrite
        name == C1[command].name
        would_overwrite == DictGet(D, name)
        alters == C1[command].alters
        name_is_alias == would_overwrite # 0 /\ C1[would_overwrite].name # name
        alter_taken == AlterTaken(D, alters, would_overwrite)
        \* lines 1783-1794: the overwritten command is taken out
        old_alters == IF would_overwrite # 0 THEN C1[would_overwrite].alters ELSE {}
        key_error == \E alter \in old_alters : alter \notin DOMAIN D
        D1 == DictDel(D, {alter \in old_alters : D[alter] = would_overwrite})
        category == IF would_overwrite # 0 THEN C1[would_overwrite].category
                    ELSE category0
        K2 == IF would_overwrite # 0
              THEN [K1 EXCEPT ![category].commands =
                                  CmdListRemove(C1, @, would_overwrite)]
              ELSE K1
        \* lines 1799-1806: the command is put in
        K3 == [K2 EXCEPT ![category].commands = CmdListAdd(C1, @, command)]
        L1 == IF category_added THEN L ELSE CatListAdd(K3, L, category)
        D2 == DictSet(D1, alters, command)
    IN  IF not_owned THEN State(C, K, D, L, "ValueError")
        ELSE IF name_is_alias \/ alter_taken THEN State(C1, K, D, L, "ValueError")
        ELSE IF key_error THEN State(C1, K1, D, L, "KeyError")
        ELSE IF category = 0 THEN State(C1, K1, D1, L, "AttributeError")
        ELSE State(C1, K3, D2, L1, "none")


\* _add_command creates a Category when the command names one that the
\* processor does not have.
add_command_creates(C, K, L, dname, command) ==
    /\ C[command].category = 0
    /\ get_category(K, L, dname,
                    IF C[command].hint = None THEN dname ELSE C[command].hint) = 0

\* The alias removal that deletes the key of the alias itself only.
AliasKeysDeleted_first_only(D, name_alters) == DictDel(D, {name_alters[1]})

\* The loop that deletes the keys of a removed alias (lines 1870-1874).
AliasKeysDeleted(D, name_alters) == DictDel(D, SeqToSet(name_alters))

\* CommandProcesser.__delevent__(func, name) for a Command `func`; name is
\* None or a str.
delevent_command(C, K, D, L, func, name_) ==
    LET name_alters == IF name_ = None THEN <<>> ELSE generate_alters_for(name_)
        name == IF name_ = None THEN None ELSE name_alters[1]
        \* lines 1822-1847: the command as a whole
        found_alters == {name_x \in {name} :
                            \E alter \in C[func].alters : DictGet(D, alter) = func}
        D1 == DictDel(D, found_alters)
        category == C[func].category
        K1 == IF category # 0
              THEN [K EXCEPT ![category].commands = CmdListRemove(C, @, func)]
              ELSE K
        \* lines 1849-1876: one alias
        aliases == C[func].aliases
        aliases1 == RemoveFromSeq(aliases, name)
        C2 == [C EXCEPT ![func].aliases = IF aliases1 = <<>> THEN NoneList ELSE aliases1,
                        ![func].alters = @ \ SeqToSet(name_alters)]
        D2 == AliasKeysDeleted(D, name_alters)
    IN  IF name = None \/ name = C[func].name THEN
            IF found_alters = {} THEN State(C, K, D, L, "ValueError")
            ELSE State(C, K1, D1, L, "none")
        ELSE IF aliases = NoneList THEN State(C, K, D, L, "ValueError")
        ELSE IF name \notin SeqToSet(aliases) THEN State(C, K, D, L, "ValueError")
        ELSE IF name \notin DOMAIN D THEN State(C, K, D, L, "ValueError")
        ELSE IF D[name] # func THEN State(C, K, D, L, "ValueError")
        ELSE State(C2, K, D2, L, "none")

\* CommandProcesser.__delevent__(func, name) for a callable that is no
\* Command (lines 1902-1917); `func` is the callable of the Command object of
\* that number.
delevent_callable(C, K, D, L, func, name) ==
    IF name \notin DOMAIN D THEN State(C, K, D, L, "ValueError")
    ELSE IF D[name] = func THEN State(C, K, DictDel(D, C[D[name]].alters), L, "none")
    ELSE State(C, K, D, L, "ValueError")

\* CommandProcesser.create_category
create_category(C, K, D, L, dname, name, checks_, handler_) ==
    IF get_category(K, L, dname, name) # 0 THEN State(C, K, D, L, "ValueError")
    ELSE LET category == FreeCategory(K)
             K1 == [K EXCEPT ![category] = CategoryNew(name, checks_, handler_)]
         IN  State(C, K1, D, CatListAdd(K1, L, category), "none")

\* The keys delete_category takes out of the commands dict, command by
\* command of the deleted category.
RECURSIVE DeleteCommandsOf(_, _, _)
DeleteCommandsOf(C, D, list) ==
    IF list = <<>> THEN D
    ELSE LET command == Head(list) IN
         DeleteCommandsOf(C,
             DictDel(D, {name \in C[command].alters : DictGet(D, name) = command}),
             Tail(list))

\* CommandProcesser.delete_category; the argument is None, a str or a
\* Category object as for Command.__new__.
delete_category(C, K, D, L, dname, category_) ==
    IF category_.kind = "none" THEN State(C, K, D, L, "ValueError")
    ELSE IF category_.kind = "str" /\ category_.name = EmptyStr
         THEN State(C, K, D, L, "ValueError")
    ELSE IF category_.kind = "str" /\ dname # None /\ category_.name = dname
         THEN State(C, K, D, L, "ValueError")
    ELSE
        LET category_name == IF category_.kind = "str" THEN category_.name
                             ELSE K[category_.obj].name
            at == CatListFind(K, L, category_name)
        IN  IF KeyedSearchRaises(L, category_name) THEN State(C, K, D, L, "TypeError")
            ELSE IF at = 0 THEN State(C, K, D, L, "none")
            ELSE State(C, K, DeleteCommandsOf(C, D, K[L[at]].commands),
                       DeleteAt(L, at - 1), "none")


(* ------------------------------ inputs --------------------------------- *)
\* The names commands are created with, the aliases they are given, the
\* names categories are created with and the names typed after the prefix.
NameInputs == {<<"a">>, <<"b", "_", "c">>}
AliasInputs == {{}, {<<"B">>, <<"b", "_", "c">>}}
CategoryNameInputs == {<<"m">>}
DefaultCategoryNames == {None, <<"d">>}

NoCall == [status |-> "none"]
\* The event handler a processor starts with (discord/parsers.py).
DEFAULT_EVENT == "DEFAULT_EVENT"
\* No operation is under way: the caller has the outcome of the last one.
Idle == [op |-> "idle", exc |-> "none", func |-> 0, name |-> None, aliases |-> {},
         category |-> [kind |-> "none", obj |-> 0, name |-> None]]

\* The operation `op` was called with the Command `func`, the name `name`,
\* the aliases `aliases` and the category argument `category` (0, None, {}
\* and None where it takes none).
Called(op, func, name, aliases, category) ==
    [op |-> op, exc |-> "none", func |-> func, name |-> name, aliases |-> aliases,
     category |-> category]

Init ==
    /\ default_category_name \in DefaultCategoryNames
    /\ cmds = [c \in CmdIds |-> NoCommand]
    \* CommandProcesser.__new__ adds the default category
    /\ cats = [k \in CatIds |-> IF k = 1
                                THEN CategoryNew(default_category_name, <<>>, NoHandler)
                                ELSE NoCategory]
    /\ categories = <<1>>
    /\ commands = <<>>
    /\ command_error = DEFAULT_EVENT
    /\ ops = 0
    /\ last = Idle
    /\ call = NoCall

\* The processor takes over the state an operation left.
Becomes(st, op) ==
    /\ last = Idle
    /\ st.exc = "none" => ops < MaxOps
    /\ ops' = IF st.exc = "none" THEN ops + 1 ELSE ops
    /\ cmds' = st.C
    /\ cats' = st.K
    /\ commands' = st.D
    /\ categories' = st.L
    /\ last' = [op EXCEPT !.exc = st.exc]
    /\ call' = NoCall
    /\ UNCHANGED <<default_category_name, command_error>>

\* The category arguments a command can be created with.
CategoryArgs ==
    {CatArgNone} \cup {CatArgStr(n) : n \in CategoryNameInputs}
                 \cup {CatArgObj(k) : k \in {j \in CatIds : cats[j].created}}

\* CommandProcesser.__setevent__(func, name, aliases = ..., category = ...,
\* check_failure_handler = ...): a new Command is created and added.  An
\* addition that raises leaves no Command object behind.
SetEvent(name, aliases, category, handler) ==
    LET command == FreeCommand(cmds)
        C0 == [cmds EXCEPT ![command] =
                  CommandNew(cats, name, aliases, category, <<1>>, handler)]
        st == add_command(C0, cats, commands, categories, default_category_name, command)
    IN  /\ command # 0
        /\ IF CommandNewRaises(name, aliases)
           THEN Becomes(State(cmds, cats, commands, categories, "TypeError"),
                        Called("setevent", command, name, aliases, category))
           ELSE /\ add_command_creates(C0, cats, categories, default_category_name,
                                       command) => FreeCategory(cats) # 0
                /\ Becomes(IF st.exc = "none" THEN st
                           ELSE State(cmds, cats, commands, categories, st.exc),
                           Called("setevent", command, name, aliases, category))

\* CommandProcesser.__setevent__(command, None) for a Command object that
\* exists already.
AddCommand(command) ==
    /\ cmds[command].created
    /\ add_command_creates(cmds, cats, categories, default_category_name, command)
          => FreeCategory(cats) # 0
    /\ Becomes(add_command(cmds, cats, commands, categories, default_category_name,
                           command), Called("add", command, None, {}, CatArgNone))

DelNameInputs == {None, <<"a">>, <<"b", "_", "c">>, <<"B">>, <<"b">>}

DelEventCommand(func, name) ==
    /\ cmds[func].created
    /\ Becomes(delevent_command(cmds, cats, commands, categories, func, name),
               Called("delevent_command", func, name, {}, CatArgNone))

DelEventCallable(func, name) ==
    /\ cmds[func].created
    /\ Becomes(delevent_callable(cmds, cats, commands, categories, func, name),
               Called("delevent_callable", func, name, {}, CatArgNone))

CreateCategory(name, handler) ==
    /\ FreeCategory(cats) # 0
    /\ Becomes(create_category(cmds, cats, commands, categories, default_category_name,
                               name, <<>>, handler),
               Called("create_category", 0, name, {}, CatArgNone))

DeleteCategoryArgs ==
    {CatArgNone, CatArgStr(EmptyStr)}
        \cup {CatArgStr(n) : n \in CategoryNameInputs \cup (DefaultCategoryNames \ {None})}
        \cup {CatArgObj(k) : k \in {j \in CatIds : cats[j].created}}

DeleteCategory(category) ==
    Becomes(delete_category(cmds, cats, commands, categories, default_category_name,
                            category), Called("delete_category", 0, None, {}, category))

\* The operation returns (or its exception reaches the caller).
Return ==
    /\ last # Idle
    /\ call.status # "looping"
    /\ last' = Idle
    /\ call' = NoCall
    /\ UNCHANGED <<cmds, cats, commands, categories, default_category_name,
                   command_error, ops>>

Next ==
    \/ \E name \in NameInputs, aliases \in AliasInputs,
          category \in CategoryArgs, handler \in {NoHandler} :
            SetEvent(name, aliases, category, handler)
    \/ \E command \in CmdIds : AddCommand(command)
    \/ \E func \in CmdIds, name \in DelNameInputs : DelEventCommand(func, name)
    \/ \E func \in CmdIds, name \in DelNameInputs \ {None} : DelEventCallable(func, name)
    \/ \E name \in CategoryNameInputs \cup {EmptyStr}, handler \in {NoHandler} :
            CreateCategory(name, handler)
    \/ \E category \in DeleteCategoryArgs : DeleteCategory(category)
    \/ Return

Spec == Init /\ [][Next]_vars

(* ---------------------- CommandProcesser.__call__ ---------------------- *)
\* The check objects.
CheckObjs == {1, 2}

\* The names typed after the prefix or the mention.
TypedInputs == {<<"a">>, <<"A">>, <<"B">>, <<"b", "_", "c">>, <<"b">>}

\* A message: whether its author is a bot, whether the client can send in
\* its channel, whether it starts with the prefix, with a mention of the
\* client (mention_prefix being set) or with neither, and the command name
\* that COMMAND_RP finds after that.
Messages ==
    [is_bot : {FALSE}, can_send : {TRUE}, addressed : {"prefix", "mention"},
     command_name : TypedInputs]
    \cup [is_bot : BOOLEAN, can_send : BOOLEAN, addressed : {"prefix", "plain"},
          command_name : {<<"a">>}]

\* What the callables do for a message the processor handles; the result of
\* a callable that is not reached is left at None.
DispatchEnvs ==
    {env \in [outcome : [CheckObjs -> {CheckPassed, CheckSilent, 1}],
              parser_passed : {TRUE},
              parser_failure_handler : {FALSE},
              command_result : {PyNone, PyInt(0), PyInt(1), PyStr, PyRaise},
              handler_result : {PyNone, PyInt(5)},
              error_result : {PyNone, PyInt(1)}] :
        /\ env.outcome[2] = CheckPassed
        /\ env.outcome[1] = CheckPassed => env.handler_result = PyNone
        /\ env.outcome[1] # CheckPassed => env.command_result = PyNone
        /\ env.command_result # PyRaise => env.error_result = PyNone}

\* The message was handled without anything being called.
Dispatched(message) ==
    [status |-> "returned", message |-> message, command |-> 0, runs |-> 0,
     invoked |-> 0, handler_calls |-> <<>>, invalid_command |-> 0,
     default_event |-> 0, command_error |-> 0, error |-> 0, result |-> PyNone,
     outcome |-> [check \in CheckObjs |-> CheckPassed]]

\* result is None, is no int, or is false (lines 2005-2010)
Quiet(result) == result = PyNone \/ result.type # "int" \/ ~Truthy(result)

\* result = await command(client, message, content)
Awaited(d, command, env) ==
    LET run == CommandCall(cats[cmds[command].category].checks, cmds[command].checks,
                           cmds[command].handler, COMMAND_CALL_SETTING_2ARGS, env)
    IN  [d EXCEPT !.command = command,
                  !.runs = @ + 1,
                  !.outcome = env.outcome,
                  !.invoked = @ + run.invoked,
                  !.handler_calls = @ \o run.handler_calls,
                  !.result = run.result]

\* The `except BaseException as err1` branch of both paths.
Raised(d, env) ==
    IF command_error # DEFAULT_EVENT
    THEN LET d1 == [d EXCEPT !.command_error = @ + 1] IN
         IF env.error_result = PyRaise THEN [d1 EXCEPT !.error = @ + 1]
         ELSE IF Quiet(env.error_result) THEN d1
         ELSE [d1 EXCEPT !.error = @ + 1]
    ELSE [d EXCEPT !.error = @ + 1]

\* The prefix path in which a command that returned is never followed by
\* invalid_command.
PrefixPath_quiet_after_command(d, env) ==
    LET command_name == Lower(d.message.command_name) IN
    IF command_name \notin DOMAIN commands
    THEN [d EXCEPT !.invalid_command = @ + 1]
    ELSE LET d1 == Awaited(d, commands[command_name], env) IN
         IF d1.result = PyRaise THEN Raised(d1, env) ELSE d1

\* The prefix path (lines 1973-2015).
PrefixPath(d, env) ==
    LET command_name == Lower(d.message.command_name) IN
    IF command_name \notin DOMAIN commands
    THEN [d EXCEPT !.invalid_command = @ + 1]
    ELSE LET d1 == Awaited(d, commands[command_name], env) IN
         IF d1.result = PyRaise THEN Raised(d1, env)
         ELSE IF Quiet(d1.result) THEN d1
         ELSE [d1 EXCEPT !.invalid_command = @ + 1]

\* A turn of the mention path that returns where the code breaks out of
\* the loop.
MentionTurn_returns_on_miss(d, env) ==
    LET command_name == Lower(d.message.command_name) IN
    IF command_name \notin DOMAIN commands
    THEN d
    ELSE LET d1 == Awaited(d, commands[command_name], env) IN
         IF d1.result = PyRaise THEN Raised(d1, env)
         ELSE IF ~Truthy(d1.result) THEN d1
         ELSE [d1 EXCEPT !.status = "looping"]

\* One turn of the `while` of the mention path (lines 1932-1971): the loop is
\* left by `break` (default_event follows), by `return`, or it goes on.
MentionTurn(d, env) ==
    LET command_name == Lower(d.message.command_name) IN
    IF command_name \notin DOMAIN commands
    THEN [d EXCEPT !.default_event = @ + 1]
    ELSE LET d1 == Awaited(d, commands[command_name], env) IN
         IF d1.result = PyRaise THEN Raised(d1, env)
         ELSE IF ~Truthy(d1.result) THEN d1
         ELSE [d1 EXCEPT !.status = "looping"]

\* CommandProcesser.__call__(client, message)
Dispatch(message, env) ==
    /\ last = Idle
    /\ last' = Called("dispatch", 0, None, {}, CatArgNone)
    /\ call' = IF message.is_bot \/ ~message.can_send THEN Dispatched(message)
               ELSE IF message.addressed = "prefix"
                    THEN PrefixPath(Dispatched(message), env)
               ELSE IF message.addressed = "mention"
                    THEN MentionTurn(Dispatched(message), env)
               ELSE [Dispatched(message) EXCEPT !.default_event = @ + 1]
    /\ UNCHANGED <<cmds, cats, commands, categories, default_category_name,
                   command_error, ops>>

\* The `while` of the mention path takes another turn.
MentionLoop(env) ==
    /\ call.status = "looping"
    /\ call.runs < MaxRuns
    /\ call' = MentionTurn([call EXCEPT !.status = "returned"], env)
    /\ UNCHANGED <<cmds, cats, commands, categories, default_category_name,
                   command_error, ops, last>>

\* processor(command_error) : __setevent__(func, 'command_error')
SetCommandError ==
    /\ last = Idle
    /\ command_error' = "command_error_handler"
    /\ last' = Called("setevent_command_error", 0, None, {}, CatArgNone)
    /\ UNCHANGED <<cmds, cats, commands, categories, default_category_name, ops, call>>

\* The processor as commands are registered and messages arrive.
DispatchNext ==
    \/ \E name \in NameInputs, aliases \in AliasInputs,
          category \in CategoryArgs, handler \in {NoHandler} :
            SetEvent(name, aliases, category, handler)
    \/ \E name \in CategoryNameInputs, handler \in {NoHandler, "handler_2"} :
            CreateCategory(name, handler)
    \/ SetCommandError
    \/ \E message \in Messages, env \in DispatchEnvs : Dispatch(message, env)
    \/ \E env \in DispatchEnvs : MentionLoop(env)
    \/ Return

SpecDispatch == Init /\ [][DispatchNext]_vars

(* ------------------------- the dispatch claims ------------------------- *)
\* The processor handled a prefixed message of a user in a channel the client
\* can send to.
PrefixHandled ==
    /\ call.status = "returned"
    /\ ~call.message.is_bot
    /\ call.message.can_send
    /\ call.message.addressed = "prefix"

\* C2: a message made of the prefix and of a name a command is registered
\* under, in any letter case, is dispatched to that command.
C2_RegisteredNamesResolve ==
    PrefixHandled =>
        \A key \in DOMAIN commands :
            Lower(key) = Lower(call.message.command_name)
                => call.command = commands[key]

\* C3: a failing check (fail identificator 1) of a dispatched command that
\* was created without a handler of its own invokes the handler of the
\* category the command belongs to, once, with that identificator.
C3_CategoryHandlerShared ==
    (/\ PrefixHandled
     /\ call.command # 0
     /\ call.outcome[1] = 1
     /\ cats[cmds[call.command].category].handler # NoHandler)
        => call.handler_calls =
             <<[handler |-> cats[cmds[call.command].category].handler, fail |-> 1]>>

\* The processor handled a prefixed message of a user, whether or not the
\* client can send to the channel.
PrefixMatched ==
    /\ call.status = "returned"
    /\ ~call.message.is_bot
    /\ call.message.addressed = "prefix"

\* No command is registered under the lower-cased name, or the command call
\* returned a truthy int.
BadCommand ==
    \/ Lower(call.message.command_name) \notin DOMAIN commands
    \/ (call.runs = 1 /\ call.result.type = "int" /\ Truthy(call.result))

Handling == call.status \in {"returned", "looping"}

\* The message starts with a mention of the client followed by a name a
\* command is registered under.
MentionsCommand ==
    /\ call.message.addressed = "mention"
    /\ Lower(call.message.command_name) \in DOMAIN commands

\* C12: default_event is invoked at most once per message, never for a
\* message that matched the prefix, never after a command returned a falsy
\* result and never together with invalid_command; it is invoked for every
\* message of a user, in a channel the client can send to, that matches
\* neither the prefix nor a mention followed by a registered command name.
C12_DefaultEvent ==
    Handling =>
        /\ call.default_event <= 1
        /\ call.message.addressed = "prefix" => call.default_event = 0
        /\ (call.runs >= 1 /\ call.result # PyRaise /\ ~Truthy(call.result))
              => call.default_event = 0
        /\ call.invalid_command >= 1 => call.default_event = 0
        /\ (/\ call.status = "returned"
            /\ ~call.message.is_bot
            /\ call.message.can_send
            /\ call.message.addressed # "prefix"
            /\ ~MentionsCommand)
              => call.default_event = 1

\* C12 witness: a mention followed by a name no command has, while commands
\* are registered, ended in default_event.
C12_Witness ==
    /\ call.status = "returned"
    /\ call.message.addressed = "mention"
    /\ commands # <<>>
    /\ call.runs = 0
    /\ call.default_event = 1

\* C19: CommandProcesser.__call__ comes to an end for every message and
\* invokes the addressed command at most once for a message, on the prefix
\* path and on the mention path, whatever the command returns: no message
\* has its command awaited a second time.
C19_InvokedAtMostOnce ==
    Handling => call.runs <= 1

(* --------------------- aliases of a Command: SpecAliases ---------------- *)
\* Aliases a command is created with, among them one made of a single '_',
\* two that differ in letter case only and two that are variants of each
\* other; and the names given to __delevent__.
WideAliasInputs ==
    {{}, {<<"_">>}, {<<"_">>, <<"B">>}, {<<"B">>, <<"b">>},
     {<<"a">>, <<"b", "-", "c">>, <<"b", "_", "c">>}}
WideDelNameInputs == {<<"a">>, <<"B">>, <<"b">>, <<"b", "_", "c">>, <<"_">>}

\* Commands are created and added, and names are removed.
AliasesNext ==
    \/ \E name \in NameInputs, aliases \in WideAliasInputs :
            SetEvent(name, aliases, CatArgNone, NoHandler)
    \/ \E func \in CmdIds, name \in WideDelNameInputs : DelEventCommand(func, name)
    \/ Return

SpecAliases == Init /\ [][AliasesNext]_vars

\* aliases is a non-empty list of strings, ascending without duplicates.
SortedStrList(aliases) ==
    /\ Len(aliases) >= 1
    /\ \A i \in 1..Len(aliases) : aliases[i] # None
    /\ \A i, j \in 1..Len(aliases) : i < j => StrLt(aliases[i], aliases[j])

\* C13: the aliases of every Command are None or a non-empty list of strings
\* sorted ascending without duplicates that does not hold the command's
\* name; the name and every alias are among the command's alters.
C13_AliasesWellFormed ==
    \A c \in CmdIds :
        cmds[c].created =>
            LET aliases == cmds[c].aliases IN
            /\ cmds[c].name \in cmds[c].alters
            /\ aliases # NoneList =>
                  /\ SortedStrList(aliases)
                  /\ \A i \in 1..Len(aliases) :
                        aliases[i] # cmds[c].name /\ aliases[i] \in cmds[c].alters

(* ------------------------ the registry claims -------------------------- *)
\* The commands that are values of processor.commands.
Dispatchable == {commands[k] : k \in DOMAIN commands}

\* The commands in the commands lists of the categories of the processor.
Categorized ==
    UNION {SeqToSet(cats[categories[i]].commands) : i \in 1..Len(categories)}

\* Two names that differ in their '-' and '_' only.
SameUpToDash(s, t) ==
    /\ Len(s) = Len(t)
    /\ \A i \in 1..Len(s) : s[i] = t[i] \/ (IsDash(s[i]) /\ IsDash(t[i]))

RegistryUnchanged ==
    /\ commands' = commands
    /\ categories' = categories
    /\ \A k \in CatIds : cats'[k].commands = cats[k].commands

(* ------------------------------- C4 ------------------------------------ *)
\* C4: in every reachable state the commands that are values of
\* processor.commands are the commands of the categories' commands lists, and
\* command_count is the number of distinct dispatchable commands.
C4_CommandsMatchCategories ==
    /\ Dispatchable = Categorized
    /\ command_count = Cardinality(Dispatchable)

(* ------------------------------- C5 ------------------------------------ *)
\* C5: after __delevent__(command, None) or __delevent__(command, <its own
\* name>) succeeds, no key of processor.commands maps to the command and it
\* is in no commands list of its category; a command registered under none
\* of its names raises ValueError and nothing changes.
C5_DeleteWholeCommand ==
    [][(/\ last'.op = "delevent_command"
        /\ (last'.name = None \/ SameUpToDash(last'.name, cmds[last'.func].name)))
       => LET func == last'.func
              registered == \E k \in DOMAIN commands :
                                k \in cmds[func].alters /\ commands[k] = func
          IN  /\ last'.exc = "none" =>
                    /\ \A k \in DOMAIN commands' : commands'[k] # func
                    /\ func \notin SeqToSet(cats'[cmds[func].category].commands)
              /\ ~registered => last'.exc = "ValueError" /\ RegistryUnchanged
      ]_vars

(* ------------------------------- C6 ------------------------------------ *)
\* The arguments of delete_category that denote the default category (the
\* Category object the processor was created with is object 1).
DenotesDefault(category_) ==
    \/ category_.kind = "none"
    \/ category_.kind = "str" /\ category_.name = EmptyStr
    \/ category_.kind = "str" /\ category_.name = default_category_name
    \/ category_.kind = "obj" /\ category_.obj = 1

\* C6: delete_category raises ValueError for every argument that denotes the
\* default category, so the default category is always a member of
\* processor.categories and get_default_category() returns it.
C6_DefaultCategoryStays ==
    /\ (last.op = "delete_category" /\ DenotesDefault(last.category))
          => last.exc = "ValueError"
    /\ 1 \in SeqToSet(categories)
    /\ get_default_category(cats, categories, default_category_name) = 1

(* ------------------------------- C7 ------------------------------------ *)
\* C7: adding a command whose name is the name of a registered command
\* replaces it: afterwards no key maps to the old command, the old command
\* is in no category's commands list and the new one is reachable under its
\* name and each of its alters.
C7_OverwriteByName ==
    [][(last'.op \in {"setevent", "add"} /\ last'.exc = "none")
       => LET new == last'.func
              old == DictGet(commands, cmds'[new].name)
          IN  (old # 0 /\ old # new) =>
                  /\ \A k \in DOMAIN commands' : commands'[k] # old
                  /\ \A i \in 1..Len(categories') :
                         old \notin SeqToSet(cats'[categories'[i]].commands)
                  /\ \A alter \in cmds'[new].alters :
                         alter \in DOMAIN commands' /\ commands'[alter] = new
      ]_vars

(* ------------------------------- C8 ------------------------------------ *)
\* The name in its all-'-' form.
DashForm(s) == [i \in 1..Len(s) |-> IF IsDash(s[i]) THEN AUTO_DASH_MAIN_CHAR ELSE s[i]]

\* The name of the command the operation `op` adds: the one given to
\* __setevent__, or the one of the Command object added again.
AddedName(op) ==
    IF op.op = "setevent" THEN DashForm(Lower(op.name)) ELSE cmds[op.func].name

\* The keys of processor.commands that are alters of the command added.
AddedKeysTaken(op) ==
    IF op.op = "setevent"
    THEN {k \in DOMAIN commands :
             \/ SameUpToDash(k, Lower(op.name))
             \/ \E alias \in op.aliases : SameUpToDash(k, alias)}
    ELSE cmds[op.func].alters \cap DOMAIN commands

\* The registered command of the same name, which the addition replaces.
Replaced(name) ==
    IF name \in DOMAIN commands /\ cmds[commands[name]].name = name
    THEN commands[name] ELSE 0

IsNameOf(name, command) == SameUpToDash(name, command.name)

\* name is an alias of the command or a '-'/'_' variant of one.
IsAliasOf(name, command) ==
    /\ command.aliases # NoneList
    /\ \E i \in 1..Len(command.aliases) : SameUpToDash(name, command.aliases[i])

\* C9: __delevent__(command, alias) for an alias under which the command is
\* registered removes exactly the keys of the alias and of its '-'/'_'
\* variants from processor.commands and from the command's alters, the other
\* keys keep their commands; a name that is neither the name nor an alias of
\* the command raises ValueError and nothing changes.
C9_DeleteAlias ==
    [][(last'.op = "delevent_command" /\ last'.name # None)
       => LET func == last'.func
              name == last'.name
          IN  /\ (/\ IsAliasOf(name, cmds[func])
                  /\ ~IsNameOf(name, cmds[func])
                  /\ DictGet(commands, DashForm(name)) = func)
                 => /\ last'.exc = "none"
                    /\ DOMAIN commands' =
                          {k \in DOMAIN commands : ~SameUpToDash(k, name)}
                    /\ \A k \in DOMAIN commands' : commands'[k] = commands[k]
                    /\ cmds'[func].alters =
                          {k \in cmds[func].alters : ~SameUpToDash(k, name)}
                    /\ DictGet(commands, cmds[func].name) = func
                          => DictGet(commands', cmds[func].name) = func
                    /\ \A c \in CmdIds \ {func} : cmds'[c] = cmds[c]
                    /\ cats' = cats /\ categories' = categories
              /\ (~IsAliasOf(name, cmds[func]) /\ ~IsNameOf(name, cmds[func]))
                 => /\ last'.exc = "ValueError"
                    /\ RegistryUnchanged
                    /\ cmds' = cmds
      ]_vars

\* C9 witness: an alias with a '_' variant was removed from a command that
\* keeps another alias and its name.
C9_Witness ==
    /\ last.op = "delevent_command"
    /\ last.exc = "none"
    /\ last.name = <<"b", "_", "c">>
    /\ cmds[last.func].name = <<"a">>
    /\ cmds[last.func].aliases = << <<"B">> >>
    /\ DictGet(commands, <<"a">>) = last.func
    /\ DictGet(commands, <<"B">>) = last.func
    /\ <<"b", "-", "c">> \notin DOMAIN commands

(* ---------------- Command.__call__ on its own: SpecCall ---------------- *)
\* What a check can return: it passes, fails silently, or fails with a fail
\* identificator (0 or 1 here).
CheckResults == {CheckPassed, CheckSilent, 0, 1}

\* The check lists of at most MaxChecks checks (<<>> is None).
CheckLists == UNION {[1..n -> CheckObjs] : n \in 0..MaxChecks}

\* What the callables do for one (client, message): outcome[check] is what
\* the check returns, the other fields what the parser, the command and the
\* failure handlers do.
CallEnvs ==
    [outcome : [CheckObjs -> CheckResults],
     parser_passed : BOOLEAN,
     parser_failure_handler : BOOLEAN,
     command_result : {PyNone, PyInt(1)},
     handler_result : {PyNone, PyInt(5)}]

\* The parser matters to commands that use one only.
CallInputOk(call_setting, env) ==
    call_setting # COMMAND_CALL_SETTING_USE_PARSER
        => env.parser_passed /\ ~env.parser_failure_handler

NoRun == [called |-> <<>>, handler_calls |-> <<>>, parser_failures |-> 0,
          invoked |-> 0, result |-> PyNone]

CallInit ==
    /\ default_category_name = None
    /\ cmds = [c \in CmdIds |-> NoCommand]
    /\ cats = [k \in CatIds |-> IF k = 1 THEN CategoryNew(None, <<>>, NoHandler)
                                ELSE NoCategory]
    /\ categories = <<1>>
    /\ commands = <<>>
    /\ command_error = DEFAULT_EVENT
    /\ ops = 0
    /\ last = Idle
    /\ \E category_checks \in CheckLists, checks \in CheckLists,
          handler \in {NoHandler, "handler_1"},
          call_setting \in {COMMAND_CALL_SETTING_2ARGS, COMMAND_CALL_SETTING_3ARGS,
                            COMMAND_CALL_SETTING_USE_PARSER},
          env \in CallEnvs :
            /\ CallInputOk(call_setting, env)
            /\ call = [status |-> "ready", category_checks |-> category_checks,
                       checks |-> checks, handler |-> handler,
                       call_setting |-> call_setting, env |-> env, run |-> NoRun]

\* await command(client, message, content)
Call ==
    /\ call.status = "ready"
    /\ call' = [call EXCEPT
                  !.status = "called",
                  !.run = CommandCall(call.category_checks, call.checks, call.handler,
                                      call.call_setting, call.env)]
    /\ UNCHANGED <<cmds, cats, commands, categories, default_category_name,
                   command_error, ops, last>>

CallNext == Call

SpecCall == CallInit /\ [][CallNext]_vars

(* ------------------------------- C1 ------------------------------------ *)
\* The checks of the category followed by the checks of the command.
AllChecksOfCall == call.category_checks \o call.checks

\* C1: Command.__call__ invokes the command callable only if every check of
\* the category and every check of the command returned the pass value -2;
\* when some check returns another value the callable is not invoked.
C1_InvokedOnlyIfAllChecksPass ==
    call.status = "called" =>
        /\ call.run.invoked = 1 =>
              \A i \in 1..Len(AllChecksOfCall) :
                  call.env.outcome[AllChecksOfCall[i]] = CheckPassed
        /\ (\E i \in 1..Len(AllChecksOfCall) :
                  call.env.outcome[AllChecksOfCall[i]] # CheckPassed)
              => call.run.invoked = 0

\* C1 witness: a command with category checks and own checks was invoked.
C1_Witness ==
    /\ call.status = "called"
    /\ call.run.invoked = 1
    /\ Len(call.category_checks) > 0
    /\ Len(call.checks) > 0
    /\ \E i \in 1..Len(call.checks) : call.checks[i] \notin SeqToSet(call.category_checks)

(* ------------------------------- C10 ----------------------------------- *)
\* The place of the first check of the chain that does not pass, 0 if all pass.
FirstNonPassing ==
    LET failing == {i \in 1..Len(AllChecksOfCall) :
                       call.env.outcome[AllChecksOfCall[i]] # CheckPassed}
    IN  IF failing = {} THEN 0
        ELSE CHOOSE i \in failing : \A j \in failing : i <= j

\* C10: when the first non-passing check returns a fail identificator
\* k >= 0, a command with a check_failure_handler awaits it exactly once with
\* k, does not invoke the callable and returns the handler's result; a
\* command without one returns 1 and invokes nothing.
C10_FailureHandler ==
    (call.status = "called" /\ FirstNonPassing # 0) =>
        LET k == call.env.outcome[AllChecksOfCall[FirstNonPassing]] IN
        k >= 0 =>
            /\ call.run.invoked = 0
            /\ call.run.parser_failures = 0
            /\ call.handler # NoHandler =>
                  /\ call.run.handler_calls = <<[handler |-> call.handler, fail |-> k]>>
                  /\ call.run.result = call.env.handler_result
            /\ call.handler = NoHandler =>
                  /\ call.run.handler_calls = <<>>
                  /\ call.run.result = PyInt(1)

\* C10 witness: the second check of the chain failed with identificator 1
\* and the handler ran and returned a value other than 1.
C10_Witness ==
    /\ call.status = "called"
    /\ FirstNonPassing > 1
    /\ call.env.outcome[AllChecksOfCall[FirstNonPassing]] = 1
    /\ call.handler # NoHandler
    /\ Len(call.run.handler_calls) = 1
    /\ call.run.result = PyInt(5)

(* ------------------------------- C21 ----------------------------------- *)
\* C21: in every reachable state every registered command is in the commands
\* list of exactly one category, that category is the one command.category
\* refers to, and it is a member of processor.categories; also after a
\* command was replaced by a command of the same name in another category.
C21_OneCategoryPerCommand ==
    \A key \in DOMAIN commands :
        LET command == commands[key]
            holders == {k \in CatIds : cats[k].created
                                       /\ command \in SeqToSet(cats[k].commands)}
        IN  /\ holders = {cmds[command].category}
            /\ cmds[command].category \in SeqToSet(categories)

RegistryIdle ==
    /\ default_category_name = None
    /\ cmds = [c \in CmdIds |-> NoCommand]
    /\ cats = [k \in CatIds |-> IF k = 1 THEN CategoryNew(None, <<>>, NoHandler)
                                ELSE NoCategory]
    /\ categories = <<1>>
    /\ commands = <<>>
    /\ command_error = DEFAULT_EVENT
    /\ ops = 0
    /\ last = Idle

\* Values of the wire data and of attributes: a key that is missing, and
\* values by type ("bool" 0/1, the n-th "str", a "list" or "tuple" of n
\* elements, the n-th instance of a class).
Absent == [type |-> "absent", val |-> 0]
PyVal(type, val) == [type |-> type, val |-> val]
Missing(value) == value = Absent \/ value = PyNone

AUTO_ARCHIVE_DEFAULT == 3600

\* The parse_X(data) functions of channel/fields, by the attribute they fill.
parse(attribute, data) ==
    CASE attribute = "name" ->
            IF Missing(data["name"]) THEN PyVal("str", 0) ELSE data["name"]
      [] attribute = "bitrate" ->
            IF Missing(data["bitrate"]) THEN PyInt(0) ELSE data["bitrate"]
      [] attribute = "nsfw" ->
            IF Missing(data["nsfw"]) THEN PyVal("bool", 0) ELSE data["nsfw"]
      [] attribute = "slowmode" ->
            IF Missing(data["rate_limit_per_user"]) THEN PyInt(0)
            ELSE data["rate_limit_per_user"]
      [] attribute = "topic" ->
            IF Missing(data["topic"]) \/ data["topic"] = PyVal("str", 0) THEN PyNone
            ELSE data["topic"]
      [] attribute = "default_thread_auto_archive_after" ->
            IF Missing(data["default_auto_archive_duration"])
            THEN PyInt(AUTO_ARCHIVE_DEFAULT)
            ELSE PyInt(data["default_auto_archive_duration"].val * 60)
      [] attribute = "default_thread_slowmode" ->
            IF Missing(data["default_thread_rate_limit_per_user"]) THEN PyInt(0)
            ELSE data["default_thread_rate_limit_per_user"]
      [] attribute = "available_tags" ->
            IF Missing(data["available_tags"]) \/ data["available_tags"].val = 0
            THEN PyNone
            ELSE PyVal("tuple", data["available_tags"].val)
      [] attribute = "default_thread_reaction" ->
            IF Missing(data["default_reaction_emoji"]) THEN PyNone
            ELSE PyVal("Emoji", data["default_reaction_emoji"].val)
      [] attribute = "flags" ->
            PyVal("ChannelFlag", IF Missing(data["flags"]) THEN 0 ELSE data["flags"].val)
      [] attribute = "video_quality_mode" ->
            PyVal("VideoQualityMode",
                  IF Missing(data["video_quality_mode"]) THEN 0
                  ELSE data["video_quality_mode"].val)

\* One attribute in _difference_update_attributes that records the old value
\* but does not assign the new one.
Difference_not_assigned(r, attribute, value) ==
    IF r.self[attribute] # value
    THEN [self |-> r.self, old_attributes |-> r.old_attributes @@ (attribute :> r.self[attribute])]
    ELSE r

\* One attribute in _difference_update_attributes:
\*     if self.X != X: old_attributes['X'] = self.X; self.X = X
\* (`is not` for video_quality_mode, whose values are preinstanced.)
Difference(r, attribute, value) ==
    IF r.self[attribute] # value
    THEN [self |-> [r.self EXCEPT ![attribute] = value],
          old_attributes |-> r.old_attributes @@ (attribute :> r.self[attribute])]
    ELSE r

MetadataKinds == {"guild_text_base", "guild_forum", "guild_voice", "guild_stage"}

\* The parent class of each: ChannelMetadataGuildMainBase (name) for the text
\* base and the forum, ChannelMetadataGuildVoiceBase (name, bitrate) for the
\* voice and the stage.
base_create_empty(kind) ==
    IF kind \in {"guild_voice", "guild_stage"}
    THEN [name |-> PyVal("str", 0), bitrate |-> PyInt(0)]
    ELSE [name |-> PyVal("str", 0)]
base_update_attributes(kind, self, data) ==
    IF kind \in {"guild_voice", "guild_stage"}
    THEN [self EXCEPT !["name"] = parse("name", data),
                      !["bitrate"] = parse("bitrate", data)]
    ELSE [self EXCEPT !["name"] = parse("name", data)]
base_difference_update_attributes(kind, self, data) ==
    LET r0 == Difference([self |-> self, old_attributes |-> <<>>], "name",
                         parse("name", data))
    IN  IF kind \in {"guild_voice", "guild_stage"}
        THEN Difference(r0, "bitrate", parse("bitrate", data))
        ELSE r0

\* cls._create_empty()
create_empty(kind) ==
    base_create_empty(kind) @@
    CASE kind = "guild_text_base" ->
            [default_thread_auto_archive_after |-> PyInt(AUTO_ARCHIVE_DEFAULT),
             default_thread_slowmode |-> PyInt(0), nsfw |-> PyVal("bool", 0),
             slowmode |-> PyInt(0), topic |-> PyNone]
      [] kind = "guild_forum" ->
            [available_tags |-> PyNone,
             default_thread_auto_archive_after |-> PyInt(AUTO_ARCHIVE_DEFAULT),
             default_thread_reaction |-> PyNone, default_thread_slowmode |-> PyInt(0),
             flags |-> PyVal("ChannelFlag", 0), topic |-> PyNone]
      [] kind = "guild_voice" ->
            [nsfw |-> PyVal("bool", 0), video_quality_mode |-> PyVal("VideoQualityMode", 0)]
      [] kind = "guild_stage" -> [topic |-> PyNone]

\* self._update_attributes(data), as each class writes it.
update_attributes(kind, self, data) ==
    LET base == base_update_attributes(kind, self, data) IN
    CASE kind = "guild_text_base" ->
            [base EXCEPT
                !["default_thread_auto_archive_after"] =
                    parse("default_thread_auto_archive_after", data),
                !["default_thread_slowmode"] = parse("default_thread_slowmode", data),
                !["nsfw"] = parse("nsfw", data),
                !["slowmode"] = parse("slowmode", data),
                !["topic"] = parse("topic", data)]
      [] kind = "guild_forum" ->
            [base EXCEPT
                !["available_tags"] = parse("available_tags", data),
                !["default_thread_auto_archive_after"] =
                    parse("default_thread_auto_archive_after", data),
                !["default_thread_reaction"] = parse("default_thread_reaction", data),
                !["default_thread_slowmode"] = parse("default_thread_slowmode", data),
                !["flags"] = parse("flags", data),
                !["topic"] = parse("topic", data)]
      [] kind = "guild_voice" ->
            [base EXCEPT
                !["nsfw"] = parse("nsfw", data),
                !["video_quality_mode"] = parse("video_quality_mode", data)]
      [] kind = "guild_stage" -> [base EXCEPT !["topic"] = parse("topic", data)]

\* self._difference_update_attributes(data), as each class writes it: the
\* object afterwards and the returned old_attributes.
difference_update_attributes(kind, self, data) ==
    LET r0 == base_difference_update_attributes(kind, self, data) IN
    CASE kind = "guild_text_base" ->
            LET r1 == Difference(r0, "default_thread_auto_archive_after",
                                 parse("default_thread_auto_archive_after", data))
                r2 == Difference(r1, "default_thread_slowmode",
                                 parse("default_thread_slowmode", data))
                r3 == Difference(r2, "nsfw", parse("nsfw", data))
                r4 == Difference(r3, "slowmode", parse("slowmode", data))
            IN  Difference(r4, "topic", parse("topic", data))
      [] kind = "guild_forum" ->
            LET r1 == Difference(r0, "available_tags", parse("available_tags", data))
                r2 == Difference(r1, "default_thread_auto_archive_after",
                                 parse("default_thread_auto_archive_after", data))
                r3 == Difference(r2, "default_thread_reaction",
                                 parse("default_thread_reaction", data))
                r4 == Difference(r3, "default_thread_slowmode",
                                 parse("default_thread_slowmode", data))
                r5 == Difference(r4, "flags", parse("flags", data))
            IN  Difference(r5, "topic", parse("topic", data))
      [] kind = "guild_voice" ->
            LET r1 == Difference(r0, "nsfw", parse("nsfw", data))
            IN  Difference(r1, "video_quality_mode", parse("video_quality_mode", data))
      [] kind = "guild_stage" -> Difference(r0, "topic", parse("topic", data))

\* The keys of the wire data each class reads, and the values they come with.
DataKeys ==
    {"name", "bitrate", "nsfw", "rate_limit_per_user", "topic",
     "default_auto_archive_duration", "default_thread_rate_limit_per_user",
     "available_tags", "default_reaction_emoji", "flags", "video_quality_mode"}
KeysOf(kind) ==
    CASE kind = "guild_text_base" ->
            {"name", "default_auto_archive_duration", "default_thread_rate_limit_per_user",
             "nsfw", "rate_limit_per_user", "topic"}
      [] kind = "guild_forum" ->
            {"name", "available_tags", "default_auto_archive_duration",
             "default_reaction_emoji", "default_thread_rate_limit_per_user", "flags", "topic"}
      [] kind = "guild_voice" -> {"name", "bitrate", "nsfw", "video_quality_mode"}
      [] kind = "guild_stage" -> {"name", "bitrate", "topic"}
\* The value of `key` in the data: missing (0), or one of two values.
DataValue(key, choice) ==
    IF choice = 0 THEN Absent
    ELSE CASE key = "name" -> PyVal("str", 1)
           [] key = "bitrate" -> PyInt(64)
           [] key = "nsfw" -> PyVal("bool", 1)
           [] key = "rate_limit_per_user" -> PyInt(5)
           [] key = "topic" -> IF choice = 1 THEN PyVal("str", 2) ELSE PyVal("str", 0)
           [] key = "default_auto_archive_duration" -> PyInt(1440)
           [] key = "default_thread_rate_limit_per_user" -> PyInt(5)
           [] key = "available_tags" -> IF choice = 1 THEN PyVal("list", 1) ELSE PyVal("list", 0)
           [] key = "default_reaction_emoji" -> PyVal("dict", 1)
           [] key = "flags" -> PyInt(16)
           [] key = "video_quality_mode" -> PyInt(2)
DataInputs(kind, choices) ==
    {[key \in DataKeys |-> IF key \in KeysOf(kind) THEN DataValue(key, f[key]) ELSE Absent] :
        f \in [KeysOf(kind) -> choices]}

\* A metadata object that was filled from data once, and the data of an update.
MetadataInit ==
    /\ RegistryIdle
    /\ \E kind \in MetadataKinds :
       \E data0 \in DataInputs(kind, {0, 1}), data \in DataInputs(kind, {0, 1, 2}) :
          LET self == update_attributes(kind, create_empty(kind), data0) IN
          call = [status |-> "ready", kind |-> kind, self |-> self, data |-> data,
                  after |-> self, old_attributes |-> <<>>]

\* self._update_attributes(data)
UpdateAttributes ==
    /\ call.status = "ready"
    /\ call' = [call EXCEPT !.status = "updated",
                            !.after = update_attributes(call.kind, call.self, call.data)]
    /\ UNCHANGED <<cmds, cats, commands, categories, default_category_name,
                   command_error, ops, last>>

\* old_attributes = self._difference_update_attributes(data)
DifferenceUpdateAttributes ==
    /\ call.status = "ready"
    /\ LET r == difference_update_attributes(call.kind, call.self, call.data) IN
       call' = [call EXCEPT !.status = "difference_updated",
                            !.after = r.self,
                            !.old_attributes = r.old_attributes]
    /\ UNCHANGED <<cmds, cats, commands, categories, default_category_name,
                   command_error, ops, last>>

SpecMetadata ==
    MetadataInit /\ [][UpdateAttributes \/ DifferenceUpdateAttributes]_vars

\* C14: _difference_update_attributes(data) leaves the object with the
\* attributes _update_attributes(data) gives it from the same start, and
\* returns the attributes whose value changed, each with its old value.
C14_DifferenceUpdateIsUpdate ==
    call.status = "difference_updated" =>
        /\ call.after = update_attributes(call.kind, call.self, call.data)
        /\ DOMAIN call.old_attributes =
              {attribute \in DOMAIN call.self : call.self[attribute] # call.after[attribute]}
        /\ \A attribute \in DOMAIN call.old_attributes :
              call.old_attributes[attribute] = call.self[attribute]

\* C14 witness: a forum channel of which two attributes changed and a
\* non-default one stayed.
C14_Witness ==
    /\ call.status = "difference_updated"
    /\ call.kind = "guild_forum"
    /\ Cardinality(DOMAIN call.old_attributes) = 2
    /\ call.self["topic"] = PyVal("str", 2)
    /\ call.after["topic"] = PyVal("str", 2)

(* ------------- scaffold: create_project_structure ---------------------- *)
\* Paths are sequences of names; a file's content is the create_* function
\* that wrote it and the names it wrote it from.
MaxBots == 2
BotNameInputs ==
    {names \in UNION {[1..n -> {"a", "b", "c"}] : n \in 0..MaxBots} :
        \A i, j \in DOMAIN names : i # j => names[i] # names[j]}
join_paths(directory_path, name) == Append(directory_path, name)
get_project_module_name(root_directory_path) == "project"
Content(kind, names) == [kind |-> kind, names |-> names]

\* The file system calls create_project_structure makes, in order: the
\* directories it creates and, for each create_* function it calls, the
\* `open(...)` of that function (its file name and its mode) and what it writes.
ScaffoldSteps(root_directory_path, bot_names) ==
    LET project_module_name == get_project_module_name(root_directory_path)
        project_directory_path == join_paths(root_directory_path, project_module_name)
        bots_directory_path == join_paths(project_directory_path, "bots")
        plugins_directory_path == join_paths(project_directory_path, "plugins")
        Open(directory_path, name, mode, content) ==
            [op |-> "open", path |-> join_paths(directory_path, name), mode |-> mode,
             content |-> content]
        Directory(op, path) ==
            [op |-> op, path |-> path, mode |-> "", content |-> Content("", <<>>)]
    IN  <<Directory("create_directory_recursive", root_directory_path),
          \* create_dot_env_file
          Open(root_directory_path, "manage.py", "w", Content("dot_env", bot_names)),
          \* create_gitignore_file
          Open(root_directory_path, ".gitignore", "w", Content("gitignore", <<>>)),
          \* create_manage_py_file
          Open(root_directory_path, "manage.py", "w",
               Content("manage_py", <<project_module_name>>)),
          Directory("create_directory", project_directory_path),
          \* create_cli_file
          Open(project_directory_path, "cli.py", "w", Content("cli", <<>>)),
          \* create_main_file
          Open(project_directory_path, "__main__.py", "w", Content("main", <<>>)),
          Directory("create_directory", bots_directory_path),
          \* create_bots_init_file
          Open(bots_directory_path, ".__init__.py", "w", Content("bots_init", bot_names))>>
        \o
        \* create_bot_file
        [i \in DOMAIN bot_names |->
            Open(bots_directory_path, bot_names[i] \o ".py", "r",
                 Content("bot", <<bot_names[i]>>))]
        \o
        <<Directory("create_directory", plugins_directory_path),
          \* create_plugins_init_file
          Open(plugins_directory_path, "__init__.py", "r", Content("plugins_init", <<>>))>>

\* One call on the file system fs = [dirs, files]: the file system after it
\* and the exception it raised.
Execute(fs, step) ==
    LET Parent == SubSeq(step.path, 1, Len(step.path) - 1)
        Raise(exc) == [fs |-> fs, exc |-> exc]
    IN  CASE step.op = "create_directory_recursive" ->
                [fs |-> [fs EXCEPT !.dirs = @ \cup {SubSeq(step.path, 1, n) :
                                                        n \in 1..Len(step.path)}],
                 exc |-> "none"]
          [] step.op = "create_directory" ->
                IF step.path \in fs.dirs \/ step.path \in DOMAIN fs.files
                THEN Raise("FileExistsError")
                ELSE IF Parent \notin fs.dirs THEN Raise("FileNotFoundError")
                ELSE [fs |-> [fs EXCEPT !.dirs = @ \cup {step.path}], exc |-> "none"]
          [] step.op = "open" /\ step.mode = "w" ->
                IF Parent \notin fs.dirs THEN Raise("FileNotFoundError")
                ELSE IF step.path \in fs.dirs THEN Raise("IsADirectoryError")
                ELSE [fs |-> [fs EXCEPT !.files = (step.path :> step.content) @@ @],
                      exc |-> "none"]
          [] step.op = "open" /\ step.mode = "r" ->
                IF step.path \notin DOMAIN fs.files THEN Raise("FileNotFoundError")
                ELSE Raise("UnsupportedOperation")

\* create_project_structure(root_directory_path, bot_names) is about to run;
\* the root directory exists already or does not.
ScaffoldInit ==
    /\ RegistryIdle
    /\ \E bot_names \in BotNameInputs, dirs \in {{}, {<<"root">>}} :
          call = [status |-> "running", root |-> <<"root">>, bot_names |-> bot_names,
                  fs |-> [dirs |-> dirs, files |-> <<>>], pc |-> 1, exc |-> "none"]

\* The next call of create_project_structure on the file system.
ScaffoldStep ==
    /\ call.status = "running"
    /\ LET steps == ScaffoldSteps(call.root, call.bot_names)
           r == Execute(call.fs, steps[call.pc])
       IN  call' = [call EXCEPT !.fs = r.fs,
                                !.exc = r.exc,
                                !.pc = @ + 1,
                                !.status = IF r.exc # "none" THEN "raised"
                                           ELSE IF call.pc = Len(steps) THEN "returned"
                                           ELSE "running"]
    /\ UNCHANGED <<cmds, cats, commands, categories, default_category_name,
                   command_error, ops, last>>

SpecScaffold == ScaffoldInit /\ [][ScaffoldStep]_vars

\* C15: create_project_structure(root, bot_names) completes without raising
\* and leaves the documented tree: .env (one line per bot), .gitignore and
\* manage.py in the root, __init__.py, __main__.py and cli.py in the project,
\* bots/__init__.py and one bots/{bot}.py per bot, and plugins/__init__.py,
\* each with the content of its own create_* function.
C15_ProjectStructureCreated ==
    call.status \in {"returned", "raised"} =>
        LET files == call.fs.files
            project == <<"root", get_project_module_name(call.root)>>
            Holds(path, content) == path \in DOMAIN files /\ files[path] = content
        IN  /\ call.status = "returned"
            /\ Holds(<<"root", ".env">>, Content("dot_env", call.bot_names))
            /\ Holds(<<"root", ".gitignore">>, Content("gitignore", <<>>))
            /\ Holds(<<"root", "manage.py">>, Content("manage_py", <<project[2]>>))
            /\ Holds(project \o <<"__init__.py">>, Content("project_init", <<>>))
            /\ Holds(project \o <<"__main__.py">>, Content("main", <<>>))
            /\ Holds(project \o <<"cli.py">>, Content("cli", <<>>))
            /\ Holds(project \o <<"bots", "__init__.py">>,
                     Content("bots_init", call.bot_names))
            /\ \A i \in DOMAIN call.bot_names :
                  Holds(project \o <<"bots", call.bot_names[i] \o ".py">>,
                        Content("bot", <<call.bot_names[i]>>))
            /\ Holds(project \o <<"plugins", "__init__.py">>, Content("plugins_init", <<>>))

(* ------------- field codecs: put_X_into and validate_X ------------------ *)
\* The values the tests of each field pass, and lists of every shape: a
\* "list_of" or "tuple_of" holds its elements, where n > 0 is the n-th string
\* in alphabetical order and 0 is an element that is not a string (12.6).
FieldInputs(field) ==
    CASE field = "details" -> {PyNone, PyVal("str", 1), PyVal("str", 2)}
      [] field = "raid_detected_at" -> {PyNone, PyVal("DateTime", 1), PyVal("DateTime", 2)}
      [] field \in {"invitable", "required"} -> {PyVal("bool", 0), PyVal("bool", 1)}
      [] field = "applied_tag_ids" -> {PyNone, PyVal("tuple", 1), PyVal("tuple", 2)}
      [] field = "position" ->
            {PyNone, PyInt(0), PyInt(1), PyInt(0 - 1), PyVal("float", 12), PyVal("str", 12)}
      [] field = "user_flags" ->
            {PyNone, PyInt(1), PyVal("UserFlag", 1), PyVal("str", 1), PyVal("float", 12)}
      [] field = "message_flags" ->
            {PyNone, PyInt(1), PyVal("MessageFlag", 1), PyVal("str", 1), PyVal("float", 12)}
      [] field = "keywords" ->
            {PyNone, PyVal("float", 12), PyVal("str", 1)} \cup
            {PyVal("list_of", elements) :
                elements \in UNION {[1..n -> 0..2] : n \in 0..2}}

\* The field in memory when it is not set, the key it has in the data, what
\* the data holds for an unset field and for a set one.
Field(field) ==
    CASE field = "details" ->
            [default |-> PyNone, key |-> "details", wire_default |-> PyVal("str", 0),
             serialise |-> [value \in FieldInputs(field) |-> value]]
      [] field = "raid_detected_at" ->
            [default |-> PyNone, key |-> "raid_detected_at", wire_default |-> PyNone,
             serialise |-> [value \in FieldInputs(field) |-> PyVal("timestamp", value.val)]]
      [] field = "invitable" ->
            [default |-> PyVal("bool", 1), key |-> "thread_metadata",
             wire_default |-> PyVal("dict_invitable", 1),
             serialise |-> [value \in FieldInputs(field) |->
                               PyVal("dict_invitable", value.val)]]
      [] field = "required" ->
            [default |-> PyVal("bool", 1), key |-> "required",
             wire_default |-> PyVal("bool", 1),
             serialise |-> [value \in FieldInputs(field) |-> value]]
      [] field = "applied_tag_ids" ->
            [default |-> PyNone, key |-> "applied_tags", wire_default |-> PyVal("list", 0),
             serialise |-> [value \in FieldInputs(field) |-> PyVal("list", value.val)]]

\* A put_X_into that writes the field whatever `defaults` is.
put_into_always(field, value, data, defaults) ==
    LET f == Field(field)
    IN  [data |-> (f.key :> IF value = f.default THEN f.wire_default
                            ELSE f.serialise[value]) @@ data,
         returned |-> "data"]

\* put_X_into(value, data, defaults): the data afterwards and what is returned.
put_into(field, value, data, defaults) ==
    LET f == Field(field)
    IN  IF defaults \/ value # f.default
        THEN [data |-> (f.key :> IF value = f.default THEN f.wire_default
                                 ELSE f.serialise[value]) @@ data,
              returned |-> "data"]
        ELSE [data |-> data, returned |-> "data"]

\* A validate_keywords that keeps the order of the list.
sorted_keywords_unsorted(elements) == elements

\* tuple(sorted(keywords))
sorted_keywords(elements) == SortSeq(elements, LAMBDA a, b : a < b)

\* validate_X(value): the value returned or the exception raised.
validate(field, value) ==
    LET Returns(output) == [output |-> output, exc |-> "none"]
        Raises(exc) == [output |-> PyNone, exc |-> exc]
    IN  CASE field = "position" ->
                IF value = PyNone THEN Returns(PyInt(0))
                ELSE IF value.type # "int" THEN Raises("TypeError")
                ELSE IF value.val < 0 THEN Raises("ValueError")
                ELSE Returns(value)
          [] field \in {"user_flags", "message_flags"} ->
                LET flag_type == IF field = "user_flags" THEN "UserFlag" ELSE "MessageFlag"
                IN  IF value = PyNone THEN Returns(PyVal(flag_type, 0))
                    ELSE IF value.type = flag_type THEN Returns(value)
                    ELSE IF value.type = "int" THEN Returns(PyVal(flag_type, value.val))
                    ELSE Raises("TypeError")
          [] field = "keywords" ->
                IF value = PyNone THEN Returns(PyNone)
                ELSE IF value.type = "str" THEN Returns(PyVal("tuple_of", <<value.val>>))
                ELSE IF value.type # "list_of" THEN Raises("TypeError")
                ELSE IF \E i \in DOMAIN value.val : value.val[i] = 0 THEN Raises("TypeError")
                ELSE IF value.val = <<>> THEN Returns(PyNone)
                ELSE Returns(PyVal("tuple_of", sorted_keywords(value.val)))

\* A field function is about to be called: put_X_into on a data that is
\* empty, holds another key or holds the field's key already, or validate_X.
FieldsInit ==
    /\ RegistryIdle
    /\ \/ \E field \in {"details", "raid_detected_at", "invitable", "required",
                        "applied_tag_ids"},
             defaults \in BOOLEAN :
          \E value \in FieldInputs(field),
             data \in {<<>>, "other" :> PyInt(7), Field(field).key :> PyInt(7)} :
             call = [status |-> "ready", op |-> "put_into", field |-> field,
                     value |-> value, defaults |-> defaults, data |-> data,
                     data_after |-> data, returned |-> "", output |-> PyNone,
                     exc |-> "none"]
       \/ \E field \in {"position", "user_flags", "message_flags", "keywords"} :
          \E value \in FieldInputs(field) :
             call = [status |-> "ready", op |-> "validate", field |-> field,
                     value |-> value, defaults |-> FALSE, data |-> <<>>,
                     data_after |-> <<>>, returned |-> "", output |-> PyNone,
                     exc |-> "none"]

\* put_X_into(value, data, defaults)
PutInto ==
    /\ call.status = "ready"
    /\ call.op = "put_into"
    /\ LET r == put_into(call.field, call.value, call.data, call.defaults)
       IN  call' = [call EXCEPT !.status = "returned", !.data_after = r.data,
                                !.returned = r.returned]
    /\ UNCHANGED <<cmds, cats, commands, categories, default_category_name,
                   command_error, ops, last>>

\* validate_X(value)
Validate ==
    /\ call.status = "ready"
    /\ call.op = "validate"
    /\ LET r == validate(call.field, call.value)
       IN  call' = [call EXCEPT !.status = IF r.exc = "none" THEN "returned" ELSE "raised",
                                !.output = r.output, !.exc = r.exc]
    /\ UNCHANGED <<cmds, cats, commands, categories, default_category_name,
                   command_error, ops, last>>

SpecFields == FieldsInit /\ [][PutInto \/ Validate]_vars

\* C16: put_X_into(value, data, defaults) writes the field into data exactly
\* when the value is not the field's default or defaults is true; a default
\* is written as the wire default ('' for details, None for timestamps, True
\* for the booleans), another value serialised; the function returns the data
\* it was given and changes no other key.
C16_PutIntoOptional ==
    call.op = "put_into" /\ call.status = "returned" =>
        LET f == Field(call.field)
            written == call.defaults \/ call.value # f.default
        IN  /\ call.returned = "data"
            /\ DOMAIN call.data_after =
                  DOMAIN call.data \cup (IF written THEN {f.key} ELSE {})
            /\ \A key \in DOMAIN call.data :
                  key # f.key \/ ~written => call.data_after[key] = call.data[key]
            /\ written =>
                  call.data_after[f.key] =
                      IF call.value # f.default THEN f.serialise[call.value]
                      ELSE CASE call.field = "details" -> PyVal("str", 0)
                             [] call.field = "raid_detected_at" -> PyNone
                             [] call.field = "invitable" -> PyVal("dict_invitable", 1)
                             [] call.field = "required" -> PyVal("bool", 1)
                             [] call.field = "applied_tag_ids" -> PyVal("list", 0)

\* C16 witness: put_details_into(None, {}, False) left the data empty, and
\* put_invitable_into(True, {...}, True) wrote True.
C16_Witness ==
    /\ call.op = "put_into"
    /\ call.status = "returned"
    /\ \/ /\ call.field = "details"
          /\ call.value = PyNone
          /\ ~call.defaults
          /\ call.data = <<>>
          /\ call.data_after = <<>>
       \/ /\ call.field = "invitable"
          /\ call.value = PyVal("bool", 1)
          /\ call.defaults
          /\ "other" \in DOMAIN call.data
          /\ call.data_after["thread_metadata"] = PyVal("dict_invitable", 1)

\* C17: validate_X(None) is the field's default (0, the zero flag, None); an
\* acceptable value is returned in the field's type (an int position, a flag
\* instance, a sorted tuple of keyword strings, a single string as a 1-tuple,
\* an empty list as None); a value of another type raises TypeError and a
\* negative position raises ValueError.
C17_ValidateNormalises ==
    call.op = "validate" /\ call.status # "ready" =>
        LET value == call.value
            output == call.output
            flag_type == IF call.field = "user_flags" THEN "UserFlag" ELSE "MessageFlag"
            Returned(v) == call.exc = "none" /\ output = v
        IN  CASE call.field = "position" ->
                    /\ value = PyNone => Returned(PyInt(0))
                    /\ value.type = "int" /\ value.val >= 0 => Returned(value)
                    /\ value.type = "int" /\ value.val < 0 => call.exc = "ValueError"
                    /\ value.type \notin {"int", "NoneType"} => call.exc = "TypeError"
                    /\ call.exc = "none" => output.type = "int"
              [] call.field \in {"user_flags", "message_flags"} ->
                    /\ value = PyNone => Returned(PyVal(flag_type, 0))
                    /\ value.type \in {"int", flag_type} =>
                          Returned(PyVal(flag_type, value.val))
                    /\ value.type \notin {"int", flag_type, "NoneType"} =>
                          call.exc = "TypeError"
                    /\ call.exc = "none" => output.type = flag_type
              [] call.field = "keywords" ->
                    /\ value = PyNone => Returned(PyNone)
                    /\ value.type = "str" => Returned(PyVal("tuple_of", <<value.val>>))
                    /\ value.type = "list_of" /\ value.val = <<>> => Returned(PyNone)
                    /\ value.type = "list_of" /\ value.val # <<>>
                       /\ (\A i \in DOMAIN value.val : value.val[i] # 0) =>
                          /\ call.exc = "none"
                          /\ output.type = "tuple_of"
                          /\ Len(output.val) = Len(value.val)
                          /\ \A n \in 1..2 :
                                Cardinality({i \in DOMAIN output.val : output.val[i] = n}) =
                                Cardinality({i \in DOMAIN value.val : value.val[i] = n})
                          /\ \A i, j \in DOMAIN output.val :
                                i < j => output.val[i] <= output.val[j]
                    /\ value.type \notin {"NoneType", "str", "list_of"} =>
                          call.exc = "TypeError"
                    /\ value.type = "list_of"
                       /\ (\E i \in DOMAIN value.val : value.val[i] = 0) =>
                          call.exc = "TypeError"

\* C17 witness: validate_keywords(['bad', 'apple']) returned ('apple', 'bad').
C17_Witness ==
    /\ call.op = "validate"
    /\ call.field = "keywords"
    /\ call.value = PyVal("list_of", <<2, 1>>)
    /\ call.output = PyVal("tuple_of", <<1, 2>>)

(* ------------- ApplicationCommandOptionMetadataChannel: copy ------------ *)
\* validate_channel_types and the parent's validate_required: the value a
\* field gets from a parameter, or TypeError.
validate_parameter(field, value) ==
    CASE field = "channel_types" /\ value = PyNone -> [value |-> PyNone, exc |-> "none"]
      [] field = "channel_types" /\ value.type \in {"list", "tuple"} ->
            [value |-> IF value.val = 0 THEN PyNone ELSE PyVal("tuple", value.val),
             exc |-> "none"]
      [] field = "required" /\ value.type = "bool" -> [value |-> value, exc |-> "none"]
      [] OTHER -> [value |-> PyNone, exc |-> "TypeError"]

\* ApplicationCommandOptionMetadataParameter.copy (keyword_parameters = <<>>)
\* and .copy_with: a new object with the parent's field `required`.
parameter_copy_with(self, keyword_parameters) ==
    IF "required" \in DOMAIN keyword_parameters
    THEN LET r == validate_parameter("required", keyword_parameters["required"])
         IN  [new |-> [self EXCEPT !.required = r.value, !.channel_types = Absent],
              exc |-> r.exc]
    ELSE [new |-> [self EXCEPT !.channel_types = Absent], exc |-> "none"]

\* self.copy()
copy(self) ==
    LET r == parameter_copy_with(self, <<>>)
        channel_types == self.channel_types
    IN  [new |-> [r.new EXCEPT !.channel_types = channel_types], exc |-> "none"]

\* A copy_with that takes channel_types from self whatever the parameters are.
copy_with_from_self(self, keyword_parameters) ==
    LET r == parameter_copy_with(self, keyword_parameters)
    IN  [new |-> [r.new EXCEPT !.channel_types = self.channel_types], exc |-> r.exc]

\* self.copy_with(keyword_parameters)
copy_with(self, keyword_parameters) ==
    LET popped == "channel_types" \in DOMAIN keyword_parameters
        v == IF popped
             THEN validate_parameter("channel_types", keyword_parameters["channel_types"])
             ELSE [value |-> self.channel_types, exc |-> "none"]
        rest == [key \in DOMAIN keyword_parameters \ {"channel_types"} |->
                    keyword_parameters[key]]
        r == parameter_copy_with(self, rest)
    IN  IF v.exc # "none" THEN [new |-> self, exc |-> v.exc]
        ELSE IF r.exc # "none" THEN [new |-> self, exc |-> r.exc]
        ELSE [new |-> [r.new EXCEPT !.channel_types = v.value], exc |-> "none"]

\* An object (number 1) and the keyword parameters of a copy_with.
CopyInit ==
    /\ RegistryIdle
    /\ \E required \in {PyVal("bool", 0), PyVal("bool", 1)},
          channel_types \in {PyNone, PyVal("tuple", 1), PyVal("tuple", 2)} :
       \E keyword_parameters \in
             {[key \in keys |-> IF key = "required" THEN r ELSE c] :
                 keys \in SUBSET {"required", "channel_types"},
                 r \in {PyVal("bool", 0), PyVal("bool", 1), PyInt(2)},
                 c \in {PyNone, PyVal("list", 0), PyVal("list", 1), PyVal("tuple", 2),
                        PyVal("str", 1)}} :
          call = [status |-> "ready", op |-> "", self |-> 1, new |-> 0,
                  keyword_parameters |-> keyword_parameters,
                  objects |-> <<[required |-> required, channel_types |-> channel_types]>>,
                  original |-> [required |-> required, channel_types |-> channel_types],
                  exc |-> "none"]

\* new = self.copy()
Copy ==
    /\ call.status = "ready"
    /\ LET r == copy(call.objects[call.self])
           new == Len(call.objects) + 1
       IN  call' = [call EXCEPT !.status = "returned", !.op = "copy", !.new = new,
                                !.objects = Append(@, r.new)]
    /\ UNCHANGED <<cmds, cats, commands, categories, default_category_name,
                   command_error, ops, last>>

\* new = self.copy_with(keyword_parameters)
CopyWith ==
    /\ call.status = "ready"
    /\ LET r == copy_with(call.objects[call.self], call.keyword_parameters)
           new == Len(call.objects) + 1
       IN  call' = IF r.exc = "none"
                   THEN [call EXCEPT !.status = "returned", !.op = "copy_with",
                                     !.new = new, !.objects = Append(@, r.new)]
                   ELSE [call EXCEPT !.status = "raised", !.op = "copy_with",
                                     !.exc = r.exc]
    /\ UNCHANGED <<cmds, cats, commands, categories, default_category_name,
                   command_error, ops, last>>

SpecCopy == CopyInit /\ [][Copy \/ CopyWith]_vars

\* C18: copy() returns a new object whose every field equals the original's;
\* copy_with(params) returns a new object in which a field named in params
\* has the validated value given and any other field equals the original's,
\* so that copy_with({}) gives what copy() gives; the original is unchanged.
C18_CopyAndCopyWith ==
    call.status = "returned" =>
        LET self == call.objects[call.self]
            new == call.objects[call.new]
            keyword_parameters == call.keyword_parameters
        IN  /\ call.new # call.self
            /\ call.new \in DOMAIN call.objects
            /\ self = call.original
            /\ call.op = "copy" => new = self
            /\ call.op = "copy_with" =>
                  /\ \A field \in DOMAIN self :
                        new[field] =
                            IF field \in DOMAIN keyword_parameters
                            THEN validate_parameter(field, keyword_parameters[field]).value
                            ELSE self[field]
                  /\ keyword_parameters = <<>> => new = copy(self).new

\* C18 witness: a copy_with that names channel_types and not required.
C18_Witness ==
    /\ call.status = "returned"
    /\ call.op = "copy_with"
    /\ DOMAIN call.keyword_parameters = {"channel_types"}
    /\ call.keyword_parameters["channel_types"] = PyVal("list", 1)
    /\ call.objects[1] = [required |-> PyVal("bool", 1), channel_types |-> PyVal("tuple", 2)]
    /\ call.objects[2] = [required |-> PyVal("bool", 1), channel_types |-> PyVal("tuple", 1)]

(* ------------- Category.check_failure_handler -------------------------- *)
\* Category._set_check_failure_handler of the Category k: the Command and
\* the Category objects afterwards.
set_check_failure_handler(C, K, k, check_failure_handler) ==
    LET actual_check_failure_handler == K[k].handler
    IN  [C |-> [command \in CmdIds |->
                  IF /\ command \in SeqToSet(K[k].commands)
                     /\ C[command].handler = actual_check_failure_handler
                  THEN [C[command] EXCEPT !.handler = check_failure_handler]
                  ELSE C[command]],
         K |-> [K EXCEPT ![k].handler = check_failure_handler]]

\* category.check_failure_handler = check_failure_handler
SetCheckFailureHandler(k, check_failure_handler) ==
    /\ cats[k].created
    /\ LET r == set_check_failure_handler(cmds, cats, k, check_failure_handler)
       IN  Becomes(State(r.C, r.K, commands, categories, "none"),
                   Called("set_check_failure_handler", 0, None, {}, CatArgObj(k)))

\* del category.check_failure_handler : nothing is done when the category
\* has no handler.
DelCheckFailureHandler(k) ==
    /\ cats[k].created
    /\ LET r == IF cats[k].handler = NoHandler THEN [C |-> cmds, K |-> cats]
                ELSE set_check_failure_handler(cmds, cats, k, NoHandler)
       IN  Becomes(State(r.C, r.K, commands, categories, "none"),
                   Called("del_check_failure_handler", 0, None, {}, CatArgObj(k)))

\* The processor as commands are registered and the handlers of the
\* categories are assigned and deleted.
SpecHandlers ==
    Init /\ [][\/ \E name \in {<<"a">>}, category \in CategoryArgs,
                     handler \in {NoHandler, "handler_1"} :
                       SetEvent(name, {}, category, handler)
               \/ \E handler \in {NoHandler, "handler_1"} :
                       CreateCategory(<<"m">>, handler)
               \/ \E k \in CatIds, handler \in {NoHandler} \cup Handlers :
                       SetCheckFailureHandler(k, handler)
               \/ \E k \in CatIds : DelCheckFailureHandler(k)
               \/ Return]_vars

\* C22: assigning or deleting Category.check_failure_handler gives the new
\* handler (None on delete) to every command of the category whose handler
\* was the previous handler of the category, leaves the handler of its
\* commands that have another handler of their own, and touches no command
\* of another category.  The commands of a category are the registered
\* commands whose `category` it is.
C22_CategoryHandlerFrame ==
    [][last'.op \in {"set_check_failure_handler", "del_check_failure_handler"}
       => LET k == last'.category.obj
              previous == cats[k].handler
              new == cats'[k].handler
          IN  /\ last'.op = "del_check_failure_handler" => new = NoHandler
              /\ \A command \in Dispatchable :
                    IF cmds[command].category = k
                    THEN cmds'[command] =
                            [cmds[command] EXCEPT
                                !.handler = IF @ = previous THEN new ELSE @]
                    ELSE cmds'[command] = cmds[command]
      ]_vars

====
